---- MODULE Spec2Model ----
(***************************************************************************)
(* The PostgreSQL destination connector of Replibyte                       *)
(* (replibyte/src/destination/postgres.rs): Postgres::init, which          *)
(* optionally wipes the public schema by running `psql -c <statement>`,    *)
(* and Postgres::write, which pipes a payload into the standard input of   *)
(* a `psql` subprocess.  Both run the command locally or through           *)
(* SshConfig::ssh_command when an ssh_config is present.                   *)
(*                                                                         *)
(* A command-line argument is a sequence of string fragments whose         *)
(* concatenation is the argument, so that "the argument contains s" is     *)
(* "s is one of its fragments".  The values of the connector's fields are  *)
(* drawn from pairwise distinct strings, except that the database and one  *)
(* username are both "root" as in the tests.                               *)
(***************************************************************************)
EXTENDS Integers, Sequences, FiniteSets, TLC

\* ------------------------------------------------------------------ bounds
MaxLen == 2        \* longest payload handed to write
PipeCap == 1       \* bytes a pipe holds unread (less than MaxLen)
MaxWrites == 2     \* the count of returned writes saturates here
MaxExit == 1       \* exit statuses of a subprocess are 0..MaxExit

\* ------------------------------------------------------- program constants
TestPort == 5453
PayloadByte == 83

\* ------------------------------------------------------------ value sets
Instances == {"p", "q"}
Usernames == {"root", "alice"}
ValidPassword == "password"
Passwords == {ValidPassword, "wrongpassword"}
NoSsh == [host |-> ""]
SshConfigs == {NoSsh, [host |-> "bastion"]}
Payloads == UNION {[1..n -> {PayloadByte}] : n \in 0..MaxLen}

NoInstance == [host |-> "", port |-> 0, database |-> "", username |-> "",
               password |-> "", wipe_database |-> FALSE, ssh_config |-> NoSsh]

\* Postgres::new: the fields are stored as given.
new(host, port, database, username, password, wipe_database, ssh_config) ==
    [host |-> host, port |-> port, database |-> database, username |-> username,
     password |-> password, wipe_database |-> wipe_database,
     ssh_config |-> ssh_config]

\* tests::get_postgres and tests::get_invalid_postgres
get_postgres == new("localhost", TestPort, "root", "root", "password", TRUE, NoSsh)
get_invalid_postgres ==
    new("localhost", TestPort, "root", "root", "wrongpassword", TRUE, NoSsh)

Configs ==
    {new("localhost", TestPort, "root", u, pw, w, s) :
        u \in Usernames, pw \in Passwords, w \in BOOLEAN, s \in SshConfigs}

\* ------------------------------------------------------------- commands
Lit(s) == <<s>>

\* Variant: the two grants in the other order.
wipe_database_query_swapped(username) ==
    << "DROP SCHEMA public CASCADE; ",
       "CREATE SCHEMA public; ",
       "GRANT ALL ON SCHEMA public TO public; ",
       "GRANT ALL ON SCHEMA public TO \"", username, "\";" >>

\* wipe_database_query: format! of the fixed template with the username.
wipe_database_query(username) ==
    << "DROP SCHEMA public CASCADE; ",
       "CREATE SCHEMA public; ",
       "GRANT ALL ON SCHEMA public TO \"", username, "\"; ",
       "GRANT ALL ON SCHEMA public TO public;" >>

NoCmd == [program |-> "", args |-> <<>>, envs |-> <<>>,
          stdin |-> "inherit", stdout |-> "inherit"]

\* Command::new(program)
CommandNew(program) == [NoCmd EXCEPT !.program = program]

RECURSIVE JoinArgs(_)
\* the arguments as one command line, each preceded by a space
JoinArgs(args) ==
    IF args = <<>> THEN <<>>
    ELSE <<" ">> \o Head(args) \o JoinArgs(Tail(args))

RECURSIVE Exports(_)
\* one `export NAME=value; ` per secret
Exports(envs) ==
    IF envs = <<>> THEN <<>>
    ELSE <<"export ", Head(envs)[1], "=", Head(envs)[2], "; ">> \o Exports(Tail(envs))

\* SshConfig::ssh_command: the transport client, the tunnel's host, and one
\* remote command line that exports the secrets and then invokes the command.
ssh_command(ssh_config, cmd, envs) ==
    [CommandNew("ssh") EXCEPT
        !.args = << Lit(ssh_config.host),
                    Exports(envs) \o Lit(cmd.program) \o JoinArgs(cmd.args) >>]

\* Variant: the password is set in the local environment before the match,
\* so the wrapped command carries it too.
RouteEnvBoth(self, base) ==
    IF self.ssh_config # NoSsh
    THEN [ssh_command(self.ssh_config, base, << <<"PGPASSWORD", self.password>> >>)
            EXCEPT !.envs = << <<"PGPASSWORD", self.password>> >>]
    ELSE [base EXCEPT !.envs = << <<"PGPASSWORD", self.password>> >>]

\* The match on self.ssh_config in init and in write.
Route(self, base) ==
    IF self.ssh_config # NoSsh
    THEN ssh_command(self.ssh_config, base, << <<"PGPASSWORD", self.password>> >>)
    ELSE [base EXCEPT !.envs = << <<"PGPASSWORD", self.password>> >>]

\* Variant: write passes the reset statement too.
WriteArgsWithReset(self) ==
    << Lit("-h"), Lit(self.host), Lit("-p"), Lit(ToString(self.port)),
       Lit("-d"), Lit(self.database), Lit("-U"), Lit(self.username),
       Lit("-c"), wipe_database_query(self.username) >>

\* The argument list psql_cmd of write.
WriteArgs(self) ==
    << Lit("-h"), Lit(self.host), Lit("-p"), Lit(ToString(self.port)),
       Lit("-d"), Lit(self.database), Lit("-U"), Lit(self.username) >>

\* The argument list wipe_db_cmd of init.
InitArgs(self) ==
    << Lit("-h"), Lit(self.host), Lit("-p"), Lit(ToString(self.port)),
       Lit("-d"), Lit(self.database), Lit("-U"), Lit(self.username),
       Lit("-c"), wipe_database_query(self.username) >>

\* The command init spawns: wipe_db_cmd, routed, with stdout suppressed.
InitCommand(self) ==
    [Route(self, [CommandNew("psql") EXCEPT !.args = InitArgs(self)])
        EXCEPT !.stdout = "null"]

\* The command write spawns: psql_cmd, routed, stdin piped, stdout suppressed.
WriteCommand(self) ==
    [Route(self, [CommandNew("psql") EXCEPT !.args = WriteArgs(self)])
        EXCEPT !.stdin = "piped", !.stdout = "null"]

\* ------------------------------------------------------------------ state
VARIABLES
    cfg,        \* the fields of each Postgres value (NoInstance: not constructed)
    pc,         \* where each instance's current call stands
    proc,       \* the subprocess spawned by the current or the last call
    ret,        \* result of the current or the last call
    lastOp,     \* "init" or "write": the current or the last call
    toolFound,  \* what binary_exists("psql") answered in the last init
    spawns,     \* spawn attempts made by the current or the last call
    data,       \* the payload of the current write call
    written,    \* the bytes the current or the last call wrote to a stdin pipe
    stdinRes,   \* result of write_all in the current or the last write
    waited,     \* whether the current or the last call reached a wait
    initOk,     \* init has returned Ok on this instance
    nWrites,    \* writes returned so far (saturating at MaxWrites)
    prevWrite   \* result of the write returned before the current call

vars == <<cfg, pc, proc, ret, lastOp, toolFound, spawns, data, written,
          stdinRes, waited, initOk, nWrites, prevWrite>>

ExitCodes == 0..MaxExit

\* stdinOpen: the caller holds the write end of the child's stdin pipe.
\* While it does, readEnd tells whether some process holds the read end and
\* buffered counts the bytes lying unread in the pipe.
NoProc == [cmd |-> NoCmd, state |-> "none", exit |-> -1,
           stdinOpen |-> FALSE, handle |-> FALSE,
           readEnd |-> FALSE, buffered |-> 0]

\* Command::spawn succeeded: a running child; the parent holds the Child
\* handle and, when stdin is piped, the write end of the pipe.
Spawned(cmd) ==
    [cmd |-> cmd, state |-> "running", exit |-> -1,
     stdinOpen |-> (cmd.stdin = "piped"), handle |-> TRUE,
     readEnd |-> (cmd.stdin = "piped"), buffered |-> 0]

\* The caller's write end is dropped; the pipe is followed no further.
ClosePipe(p) == [p EXCEPT !.stdinOpen = FALSE, !.readEnd = FALSE, !.buffered = 0]

\* The password a subprocess receives: its own environment when run locally,
\* the exported assignment of the remote command line otherwise.
Authenticates(self) == self.password = ValidPassword

\* tests::connect: with a wrong password psql exits nonzero.
PossibleExits(self) ==
    IF Authenticates(self) THEN ExitCodes ELSE ExitCodes \ {0}

Min(a, b) == IF a < b THEN a ELSE b

\* utils::binary_exists: Ok when the executable is resolvable.
binary_exists(found) == IF found THEN "ok" ELSE "err"

\* Variant: the result of binary_exists is dropped.
InitProceedsAnyway(found) == TRUE

\* init, line 45: `binary_exists("psql")?` returns the error to the caller.
InitProceeds(found) == binary_exists(found) = "ok"

\* Variant: the flag is not consulted.
NeedsWipeAlways(self) == TRUE

\* init, line 47: `if self.wipe_database`.
NeedsWipe(self) == self.wipe_database

\* Variant: the exit status is not tested.
InitStatusIgnored(exit) == "ok"

\* init, lines 83-91: Err unless exit_status.success().
InitStatusResult(exit) == IF exit = 0 THEN "ok" ELSE "err"

\* utils::wait_for_command once the wait has yielded an exit status: Ok
\* exactly when the status is zero.
wait_for_command(exit) == IF exit = 0 THEN "ok" ELSE "err"

\* Variant: the ChildStdin is bound to a local that lives until write returns.
StdinHeldUntilReturn == TRUE

\* write, line 129: the ChildStdin taken out of the Child is a temporary of
\* the statement, so the write end is no longer held after it.
StdinHeldAfterPayload == FALSE

\* Variant: a failed payload write is propagated with `?`.
WriteResultStrict(stdin_result, wait_result) ==
    IF stdin_result = "err" THEN "err" ELSE wait_result

\* write: `let _ = ...write_all(..)` discards the result of the payload
\* write; the value of write is the value of wait_for_command.
WriteResult(stdin_result, wait_result) == wait_result

\* One connector with any fields.
OneInstance ==
    \E c \in Configs : cfg = [i \in Instances |-> IF i = "p" THEN c ELSE NoInstance]

\* tests::connect: two connectors, one with the right password and one
\* with a wrong one.
TestInstances ==
    cfg = [i \in Instances |-> IF i = "p" THEN get_postgres ELSE get_invalid_postgres]

Fresh ==
    /\ pc = [i \in Instances |-> "idle"]
    /\ proc = [i \in Instances |-> NoProc]
    /\ ret = [i \in Instances |-> "none"]
    /\ lastOp = [i \in Instances |-> "none"]
    /\ toolFound = [i \in Instances |-> FALSE]
    /\ spawns = [i \in Instances |-> 0]
    /\ data = [i \in Instances |-> <<>>]
    /\ written = [i \in Instances |-> <<>>]
    /\ stdinRes = [i \in Instances |-> "none"]
    /\ waited = [i \in Instances |-> FALSE]
    /\ initOk = [i \in Instances |-> FALSE]
    /\ nWrites = [i \in Instances |-> 0]
    /\ prevWrite = [i \in Instances |-> "none"]

Init == OneInstance /\ Fresh

\* tests::connect: both connectors constructed before any call.
PairInit == TestInstances /\ Fresh

\* A call begins: nothing of an earlier call is carried into it.
BeginCall(i, op) ==
    /\ pc[i] = "idle"
    /\ cfg[i] # NoInstance
    /\ lastOp' = [lastOp EXCEPT ![i] = op]
    /\ proc' = [proc EXCEPT ![i] = NoProc]
    /\ spawns' = [spawns EXCEPT ![i] = 0]
    /\ written' = [written EXCEPT ![i] = <<>>]
    /\ stdinRes' = [stdinRes EXCEPT ![i] = "none"]
    /\ waited' = [waited EXCEPT ![i] = FALSE]

\* A write call returns r.
WriteReturn(i, r) ==
    /\ pc' = [pc EXCEPT ![i] = "idle"]
    /\ ret' = [ret EXCEPT ![i] = r]
    /\ data' = [data EXCEPT ![i] = <<>>]
    /\ nWrites' = [nWrites EXCEPT ![i] = Min(@ + 1, MaxWrites)]

\* An init call returns r.
InitReturn(i, r) ==
    /\ pc' = [pc EXCEPT ![i] = "idle"]
    /\ ret' = [ret EXCEPT ![i] = r]
    /\ initOk' = [initOk EXCEPT ![i] = @ \/ (r = "ok")]

\* Variant: the reset runs only until an init has succeeded.
InitCallOnce(i) ==
    /\ BeginCall(i, "init")
    /\ \E found \in BOOLEAN :
        /\ toolFound' = [toolFound EXCEPT ![i] = found]
        /\ IF ~InitProceeds(found) THEN InitReturn(i, "err")
           ELSE IF NeedsWipe(cfg[i]) /\ ~initOk[i]
                THEN /\ pc' = [pc EXCEPT ![i] = "init_spawn"]
                     /\ ret' = [ret EXCEPT ![i] = "pending"]
                     /\ UNCHANGED initOk
                ELSE InitReturn(i, "ok")
    /\ UNCHANGED <<cfg, data, nWrites, prevWrite>>

\* init, lines 44-76: the tool check, then the reset command is built when
\* wipe_database is set; otherwise Ok(()).
InitCall(i) ==
    /\ BeginCall(i, "init")
    /\ \E found \in BOOLEAN :
        /\ toolFound' = [toolFound EXCEPT ![i] = found]
        /\ IF ~InitProceeds(found) THEN InitReturn(i, "err")
           ELSE IF NeedsWipe(cfg[i])
                THEN /\ pc' = [pc EXCEPT ![i] = "init_spawn"]
                     /\ ret' = [ret EXCEPT ![i] = "pending"]
                     /\ UNCHANGED initOk
                ELSE InitReturn(i, "ok")
    /\ UNCHANGED <<cfg, data, nWrites, prevWrite>>

\* Variant: init returns as soon as the reset subprocess is spawned, without
\* waiting for it.
InitSpawnNoWait(i) ==
    /\ pc[i] = "init_spawn"
    /\ spawns' = [spawns EXCEPT ![i] = @ + 1]
    /\ \E ok \in BOOLEAN :
        IF ok
        THEN /\ proc' = [proc EXCEPT ![i] =
                            [Spawned(InitCommand(cfg[i])) EXCEPT !.handle = FALSE]]
             /\ InitReturn(i, "ok")
        ELSE /\ InitReturn(i, "err")
             /\ UNCHANGED proc
    /\ UNCHANGED <<cfg, lastOp, toolFound, data, written, stdinRes, waited,
                   nWrites, prevWrite>>

\* init, lines 78-80: cmd.stdout(Stdio::null()).spawn()?
InitSpawn(i) ==
    /\ pc[i] = "init_spawn"
    /\ spawns' = [spawns EXCEPT ![i] = @ + 1]
    /\ \E ok \in BOOLEAN :
        IF ok
        THEN /\ proc' = [proc EXCEPT ![i] = Spawned(InitCommand(cfg[i]))]
             /\ pc' = [pc EXCEPT ![i] = "init_wait"]
             /\ UNCHANGED <<ret, initOk>>
        ELSE /\ InitReturn(i, "err")
             /\ UNCHANGED proc
    /\ UNCHANGED <<cfg, lastOp, toolFound, data, written, stdinRes, waited,
                   nWrites, prevWrite>>

\* init, lines 81-91: .wait()? and the test of the exit status.  The Child
\* is a temporary: it is dropped when the statement ends.
InitWaitExit(i) ==
    /\ proc[i].state = "exited"
    /\ proc' = [proc EXCEPT ![i].state = "reaped", ![i].handle = FALSE]
    /\ InitReturn(i, InitStatusResult(proc[i].exit))

\* wait() itself fails: `?` returns the error; no status was obtained.
InitWaitFail(i) ==
    /\ proc' = [proc EXCEPT ![i].handle = FALSE]
    /\ InitReturn(i, "err")

\* Variant: a successful reset clears self.wipe_database (init has &mut self).
InitWaitClearsFlag(i) ==
    /\ pc[i] = "init_wait"
    /\ waited' = [waited EXCEPT ![i] = TRUE]
    /\ InitWaitExit(i) \/ InitWaitFail(i)
    /\ cfg' = [cfg EXCEPT ![i].wipe_database = @ /\ ret'[i] # "ok"]
    /\ UNCHANGED <<lastOp, toolFound, spawns, data, written, stdinRes,
                   nWrites, prevWrite>>

InitWait(i) ==
    /\ pc[i] = "init_wait"
    /\ waited' = [waited EXCEPT ![i] = TRUE]
    /\ InitWaitExit(i) \/ InitWaitFail(i)
    /\ UNCHANGED <<cfg, lastOp, toolFound, spawns, data, written, stdinRes,
                   nWrites, prevWrite>>

\* Variant: write refuses to run before a successful init.
WriteCallInitialized(i, d) ==
    /\ BeginCall(i, "write")
    /\ prevWrite' = [prevWrite EXCEPT ![i] =
                        IF lastOp[i] = "write" THEN ret[i] ELSE @]
    /\ IF initOk[i]
       THEN /\ data' = [data EXCEPT ![i] = d]
            /\ pc' = [pc EXCEPT ![i] = "write_spawn"]
            /\ ret' = [ret EXCEPT ![i] = "pending"]
            /\ UNCHANGED nWrites
       ELSE WriteReturn(i, "err")
    /\ UNCHANGED <<cfg, toolFound, initOk>>

\* Variant: a failed write leaves the connector unusable for writes.
WriteCallPoisoned(i, d) ==
    /\ ~(lastOp[i] = "write" /\ ret[i] = "err")
    /\ BeginCall(i, "write")
    /\ data' = [data EXCEPT ![i] = d]
    /\ pc' = [pc EXCEPT ![i] = "write_spawn"]
    /\ ret' = [ret EXCEPT ![i] = "pending"]
    /\ prevWrite' = [prevWrite EXCEPT ![i] =
                        IF lastOp[i] = "write" THEN ret[i] ELSE @]
    /\ UNCHANGED <<cfg, toolFound, initOk, nWrites>>

\* write, lines 96-122: the command is built; nothing else is consulted.
WriteCall(i, d) ==
    /\ BeginCall(i, "write")
    /\ data' = [data EXCEPT ![i] = d]
    /\ pc' = [pc EXCEPT ![i] = "write_spawn"]
    /\ ret' = [ret EXCEPT ![i] = "pending"]
    /\ prevWrite' = [prevWrite EXCEPT ![i] =
                        IF lastOp[i] = "write" THEN ret[i] ELSE @]
    /\ UNCHANGED <<cfg, toolFound, initOk, nWrites>>

\* Variant: a failed spawn is tried once more before the error is returned.
WriteSpawnRetry(i) ==
    /\ pc[i] = "write_spawn"
    /\ spawns' = [spawns EXCEPT ![i] = @ + 1]
    /\ \E ok \in BOOLEAN :
        IF ok
        THEN /\ proc' = [proc EXCEPT ![i] = Spawned(WriteCommand(cfg[i]))]
             /\ pc' = [pc EXCEPT ![i] = "write_stdin"]
             /\ UNCHANGED <<ret, data, nWrites>>
        ELSE IF spawns[i] = 0
             THEN UNCHANGED <<pc, proc, ret, data, nWrites>>
             ELSE /\ WriteReturn(i, "err")
                  /\ UNCHANGED proc
    /\ UNCHANGED <<cfg, lastOp, toolFound, written, stdinRes, waited, initOk,
                   prevWrite>>

\* Variant: the error of spawn is not returned; write goes on to the wait.
WriteSpawnGoesOn(i) ==
    /\ pc[i] = "write_spawn"
    /\ spawns' = [spawns EXCEPT ![i] = @ + 1]
    /\ \E ok \in BOOLEAN :
        IF ok
        THEN /\ proc' = [proc EXCEPT ![i] = Spawned(WriteCommand(cfg[i]))]
             /\ pc' = [pc EXCEPT ![i] = "write_stdin"]
        ELSE /\ pc' = [pc EXCEPT ![i] = "write_wait"]
             /\ UNCHANGED proc
    /\ UNCHANGED <<cfg, ret, data, nWrites, lastOp, toolFound, written, stdinRes,
                   waited, initOk, prevWrite>>

\* write, lines 124-127: cmd.stdin(piped).stdout(null).spawn()?
WriteSpawn(i) ==
    /\ pc[i] = "write_spawn"
    /\ spawns' = [spawns EXCEPT ![i] = @ + 1]
    /\ \E ok \in BOOLEAN :
        IF ok
        THEN /\ proc' = [proc EXCEPT ![i] = Spawned(WriteCommand(cfg[i]))]
             /\ pc' = [pc EXCEPT ![i] = "write_stdin"]
             /\ UNCHANGED <<ret, data, nWrites>>
        ELSE /\ WriteReturn(i, "err")
             /\ UNCHANGED proc
    /\ UNCHANGED <<cfg, lastOp, toolFound, written, stdinRes, waited, initOk,
                   prevWrite>>

\* the part of the payload write_all has still to write
Remaining(i) == SubSeq(data[i], Len(written[i]) + 1, Len(data[i]))

\* write_all has written everything (at once for an empty slice): Ok.
WriteStdinDone(i) ==
    /\ Remaining(i) = <<>>
    /\ stdinRes' = [stdinRes EXCEPT ![i] = "ok"]
    /\ UNCHANGED written

\* write(2) on a pipe nobody reads from any more: EPIPE, write_all fails
\* with a proper prefix written.
WriteStdinFail(i) ==
    /\ Remaining(i) # <<>>
    /\ ~proc[i].readEnd
    /\ stdinRes' = [stdinRes EXCEPT ![i] = "err"]
    /\ UNCHANGED written

\* write(2) while the pipe has room: it takes as many bytes as fit.  With
\* the pipe full and its read end held, write(2) blocks: no step.
WriteStdinSome(i) ==
    /\ Remaining(i) # <<>>
    /\ proc[i].readEnd
    /\ proc[i].buffered < PipeCap
    /\ LET n == Min(PipeCap - proc[i].buffered, Len(Remaining(i)))
       IN  /\ written' = [written EXCEPT ![i] = SubSeq(data[i], 1, Len(@) + n)]
           /\ proc' = [proc EXCEPT ![i].buffered = @ + n]
    /\ UNCHANGED <<pc, stdinRes>>

\* write, line 129: stdin.take().unwrap().write_all(data), one write(2) at a
\* time; the ChildStdin is a temporary, dropped (the pipe closed) when the
\* statement ends, whatever write_all returned.
WriteStdin(i) ==
    /\ pc[i] = "write_stdin"
    /\ \/ WriteStdinSome(i)
       \/ /\ WriteStdinDone(i) \/ WriteStdinFail(i)
          /\ proc' = [proc EXCEPT ![i] =
                        IF StdinHeldAfterPayload THEN @ ELSE ClosePipe(@)]
          /\ pc' = [pc EXCEPT ![i] = "write_wait"]
    /\ UNCHANGED <<cfg, ret, lastOp, toolFound, spawns, data, waited, initOk,
                   nWrites, prevWrite>>

\* write, line 131: wait_for_command(&mut process); process is dropped when
\* write returns.
WriteWaitExit(i) ==
    /\ proc[i].state = "exited"
    /\ proc' = [proc EXCEPT ![i] =
                    [ClosePipe(@) EXCEPT !.state = "reaped", !.handle = FALSE]]
    /\ WriteReturn(i, WriteResult(stdinRes[i], wait_for_command(proc[i].exit)))

\* the wait inside wait_for_command fails: no status was obtained.
WriteWaitFail(i) ==
    /\ proc' = [proc EXCEPT ![i] = [ClosePipe(@) EXCEPT !.handle = FALSE]]
    /\ WriteReturn(i, WriteResult(stdinRes[i], "err"))

WriteWait(i) ==
    /\ pc[i] = "write_wait"
    /\ waited' = [waited EXCEPT ![i] = TRUE]
    /\ WriteWaitExit(i) \/ WriteWaitFail(i)
    /\ UNCHANGED <<cfg, lastOp, toolFound, spawns, written, stdinRes, initOk,
                   prevWrite>>

\* The subprocess exits (the environment's step).  A child whose stdin is a
\* pipe the parent still holds open may exit early, e.g. on a failed
\* authentication.
\* With the child gone, the read end of its stdin pipe is closed unless a
\* process it started still holds it.
ProcExit(i) ==
    /\ proc[i].state = "running"
    /\ \E code \in PossibleExits(cfg[i]), held \in BOOLEAN :
          /\ held => proc[i].readEnd
          /\ proc' = [proc EXCEPT ![i].state = "exited", ![i].exit = code,
                                  ![i].readEnd = held,
                                  ![i].buffered = IF held THEN @ ELSE 0]
    /\ UNCHANGED <<cfg, pc, ret, lastOp, toolFound, spawns, data, written,
                   stdinRes, waited, initOk, nWrites, prevWrite>>

\* A holder of the read end reads what lies in the pipe: the running child,
\* or a process that kept the read end after the child's exit.
ProcRead(i) ==
    /\ proc[i].readEnd
    /\ proc[i].buffered > 0
    /\ proc' = [proc EXCEPT ![i].buffered = 0]
    /\ UNCHANGED <<cfg, pc, ret, lastOp, toolFound, spawns, data, written,
                   stdinRes, waited, initOk, nWrites, prevWrite>>

\* The last holder of the read end closes it: the running child closes its
\* stdin, or the process that kept it after the child's exit goes away.
CloseReadEnd(i) ==
    /\ proc[i].readEnd
    /\ proc' = [proc EXCEPT ![i].readEnd = FALSE, ![i].buffered = 0]
    /\ UNCHANGED <<cfg, pc, ret, lastOp, toolFound, spawns, data, written,
                   stdinRes, waited, initOk, nWrites, prevWrite>>

Next ==
    \E i \in Instances :
        \/ InitCall(i)
        \/ InitSpawn(i)
        \/ InitWait(i)
        \/ \E d \in Payloads : WriteCall(i, d)
        \/ WriteSpawn(i)
        \/ WriteStdin(i)
        \/ WriteWait(i)
        \/ ProcExit(i)
        \/ ProcRead(i)
        \/ CloseReadEnd(i)

Spec == Init /\ [][Next]_vars

\* A subprocess reading its piped stdin exits once it has seen end-of-input.
ProcExitOnEof(i) ==
    /\ proc[i].cmd.stdin = "piped"
    /\ ~proc[i].stdinOpen
    /\ ProcExit(i)

\* The input is consumed: what lies in the pipe is read by a holder of its
\* read end, for as long as the read end is held.
ConsumesInput ==
    \A i \in Instances : WF_vars(ProcRead(i))

\* The calling thread runs on: a started write takes its next step unless
\* write(2) blocks, and a wait returns once the child has exited.  The
\* subprocess exits once it has seen end-of-input.  No fairness is put on the
\* child reading its input, on an early exit of the child, on the release of
\* the read end, on a failing wait, or on the caller's next call.
Fairness ==
    \A i \in Instances :
        /\ WF_vars(WriteSpawn(i))
        /\ WF_vars(WriteStdin(i))
        /\ WF_vars(pc[i] = "write_wait" /\ WriteWait(i) /\ proc[i].state = "exited"
                   /\ proc'[i].state = "reaped")
        /\ WF_vars(ProcExitOnEof(i))

FairSpec == Spec /\ Fairness

\* The two connectors of tests::connect, their calls interleaved in any order.
PairSpec == PairInit /\ [][Next]_vars

\* ----------------------------------------------------------- properties
InArg(arg, s) == \E k \in DOMAIN arg : arg[k] = s
InArgs(cmd, s) == \E a \in DOMAIN cmd.args : InArg(cmd.args[a], s)
InEnv(cmd, name, value) == \E e \in DOMAIN cmd.envs : cmd.envs[e] = <<name, value>>
HasProc(i) == proc[i].state # "none"
Tunnelled(i) == cfg[i].ssh_config # NoSsh
\* the statement init passes after -c, recognised by its first fragment
CarriesReset(cmd) == InArgs(cmd, wipe_database_query("")[1])
ExitedZero(i) == proc[i].state = "reaped" /\ proc[i].exit = 0

\* C1: in every subprocess spawned by init or by write, with or without a
\* tunnel, the password does not occur in the argument list of the spawned
\* process.  (Stated as claimed; the tunnelled command violates it.)
C1_PasswordNeverInArgs ==
    \A i \in Instances :
        HasProc(i) => ~InArgs(proc[i].cmd, cfg[i].password)

\* C2: a spawned command carries the reset statement only if it was spawned
\* by init on a connector whose wipe_database is true; no command spawned by
\* write carries it.
C2_ResetOnlyInInitWithFlag ==
    \A i \in Instances :
        (HasProc(i) /\ CarriesReset(proc[i].cmd))
            => (lastOp[i] = "init" /\ cfg[i].wipe_database)

\* C2 witness: a write on an initialised connector with wipe_database set has
\* spawned its subprocess, and the command carries no reset statement.
C2_Witness ==
    \E i \in Instances :
        /\ lastOp[i] = "write" /\ HasProc(i)
        /\ cfg[i].wipe_database /\ initOk[i]
        /\ ~CarriesReset(proc[i].cmd)

\* C3: an init that found the tool unresolvable has returned an error with
\* no spawn attempted, no subprocess and no wait, whatever the reset flag and
\* the tunnel are.
C3_ToolNotFoundBeforeSpawn ==
    \A i \in Instances :
        (lastOp[i] = "init" /\ ~toolFound[i])
            => /\ pc[i] = "idle" /\ ret[i] = "err"
               /\ spawns[i] = 0 /\ ~HasProc(i) /\ ~waited[i]

\* C3 witness: init on a tunnelled connector with the reset flag set failed
\* on the tool check.
C3_Witness ==
    \E i \in Instances :
        /\ lastOp[i] = "init" /\ ~toolFound[i] /\ ret[i] = "err"
        /\ cfg[i].wipe_database /\ Tunnelled(i)

\* C4: with the reset flag set and the tool resolvable, a returned init is Ok
\* exactly when its one spawn succeeded and the wait yielded exit status 0;
\* a failed spawn, a failed wait and a nonzero exit all give an error.
C4_InitOkIffResetExitedZero ==
    \A i \in Instances :
        (lastOp[i] = "init" /\ pc[i] = "idle" /\ toolFound[i] /\ cfg[i].wipe_database)
            => (ret[i] = "ok" <=> (spawns[i] = 1 /\ ExitedZero(i)))

\* C4 witness: as in tests::connect, init of a connector with a wrong
\* password and the reset flag set returned an error after its subprocess
\* exited nonzero.
C4_Witness ==
    \E i \in Instances :
        /\ lastOp[i] = "init" /\ pc[i] = "idle" /\ ret[i] = "err"
        /\ cfg[i].wipe_database /\ cfg[i].password # ValidPassword
        /\ proc[i].state = "reaped" /\ proc[i].exit # 0

\* C5: a returned write whose spawn succeeded is Ok exactly when the wait
\* yielded exit status 0, whatever the result of the payload write.
C5_WriteResultIsExitStatus ==
    \A i \in Instances :
        (lastOp[i] = "write" /\ pc[i] = "idle" /\ HasProc(i))
            => (ret[i] = "ok" <=> ExitedZero(i))

\* C5 witness: the payload write failed and write still returned Ok.
C5_Witness ==
    \E i \in Instances :
        /\ lastOp[i] = "write" /\ pc[i] = "idle"
        /\ stdinRes[i] = "err" /\ ret[i] = "ok"

\* C6 as claimed: write never waits for exit while it holds the input channel
\* open, and (given a subprocess that exits once it sees end-of-input) a
\* write that has spawned its subprocess returns.
C6_ExitOnEofLetsWriteReturn ==
    /\ [](\A i \in Instances : pc[i] = "write_wait" => ~proc[i].stdinOpen)
    /\ \A i \in Instances : (pc[i] = "write_stdin") ~> (pc[i] = "idle")

\* C6 amended: write never waits for exit while it holds the input channel
\* open; once the payload write has completed or failed, a subprocess that
\* exits once it sees end-of-input lets write return; and a write that has
\* spawned its subprocess returns when, in addition, what it puts into the
\* pipe is read for as long as the read end is held.
C6_StdinClosedBeforeWait ==
    /\ [](\A i \in Instances : pc[i] = "write_wait" => ~proc[i].stdinOpen)
    /\ \A i \in Instances : (pc[i] = "write_wait") ~> (pc[i] = "idle")
    /\ ConsumesInput =>
           \A i \in Instances : (pc[i] = "write_stdin") ~> (pc[i] = "idle")

\* C6 witness: write is waiting after a payload larger than the pipe went
\* through in full (the write had to wait for the subprocess to read); the
\* channel is closed and the subprocess is still running.
C6_Witness ==
    \E i \in Instances :
        /\ pc[i] = "write_wait" /\ stdinRes[i] = "ok"
        /\ Len(data[i]) > PipeCap /\ written[i] = data[i]
        /\ proc[i].state = "running" /\ ~proc[i].stdinOpen

\* C7 as claimed: a write has spawned the restore tool only on a connector
\* whose init has returned Ok before.
C7_WriteOnlyAfterInitOk ==
    \A i \in Instances :
        (lastOp[i] = "write" /\ HasProc(i)) => initOk[i]

\* C7 amended: the connector does not enforce the order; every write call
\* goes on to its spawn attempt, whether or not init has returned Ok.
C7_WriteAlwaysAttemptsSpawn ==
    \A i \in Instances :
        lastOp[i] = "write" => (pc[i] = "write_spawn" \/ spawns[i] = 1)

\* C7 witness: a write has spawned the restore tool on a connector whose init
\* returned an error and never returned Ok.
C7_Witness ==
    \E i \in Instances :
        /\ lastOp[i] = "write" /\ HasProc(i)
        /\ ~initOk[i] /\ toolFound[i] /\ cfg[i].wipe_database

\* C8: write is callable whenever the connector is idle, after any earlier
\* writes; a write starts with no subprocess of an earlier call, and its
\* result is a function of the outcome of its own subprocess alone.
C8_NoTerminalState ==
    \A i \in Instances :
        /\ (cfg[i] # NoInstance /\ pc[i] = "idle")
              => \A d \in Payloads : ENABLED WriteCall(i, d)
        /\ pc[i] = "write_spawn" => ~HasProc(i)
        /\ (lastOp[i] = "write" /\ pc[i] = "idle")
              => ret[i] = (IF ExitedZero(i) THEN "ok" ELSE "err")

\* C8 witness: MaxWrites writes have returned, the one before the last
\* failed and the last one succeeded.
C8_Witness ==
    \E i \in Instances :
        /\ nWrites[i] = MaxWrites /\ prevWrite[i] = "err"
        /\ lastOp[i] = "write" /\ pc[i] = "idle" /\ ret[i] = "ok"

\* C9: with the reset flag false, init attempts no spawn and has returned at
\* once, Ok exactly when the tool is resolvable.
C9_NoResetInitIsToolCheck ==
    \A i \in Instances :
        (lastOp[i] = "init" /\ ~cfg[i].wipe_database)
            => /\ pc[i] = "idle" /\ spawns[i] = 0 /\ ~HasProc(i) /\ ~waited[i]
               /\ (ret[i] = "ok" <=> toolFound[i])

\* C9 witness: init returned Ok without a subprocess on a tunnelled connector
\* with a wrong password and the reset flag false.
C9_Witness ==
    \E i \in Instances :
        /\ lastOp[i] = "init" /\ ~cfg[i].wipe_database /\ ret[i] = "ok"
        /\ ~HasProc(i) /\ Tunnelled(i) /\ cfg[i].password # ValidPassword

\* C10: a call makes at most one spawn attempt; after a failed spawn, and
\* after a nonzero exit, the call has returned an error without another spawn.
C10_NoInternalRetry ==
    \A i \in Instances :
        /\ spawns[i] <= 1
        /\ (spawns[i] = 1 /\ ~HasProc(i)) => (pc[i] = "idle" /\ ret[i] = "err")
        /\ (proc[i].state = "reaped" /\ proc[i].exit # 0)
              => (pc[i] = "idle" /\ ret[i] = "err" /\ spawns[i] = 1)

\* C10 witness: a write whose spawn failed has returned the error.
C10_Witness ==
    \E i \in Instances :
        /\ lastOp[i] = "write" /\ spawns[i] = 1 /\ ~HasProc(i)
        /\ pc[i] = "idle" /\ ret[i] = "err"

Returned(i) == pc[i] = "idle" /\ lastOp[i] # "none"

\* C11 as claimed: whenever init or write has returned, with any result, the
\* subprocess it spawned has exited and neither its input channel nor its
\* handle is held.
C11_NothingOutlivesCall ==
    \A i \in Instances :
        (Returned(i) /\ HasProc(i))
            => /\ proc[i].state \in {"exited", "reaped"}
               /\ ~proc[i].stdinOpen /\ ~proc[i].handle

\* C11 amended: whenever init or write has returned, neither the input
\* channel nor the process handle is held, and the subprocess has been
\* waited for to its exit unless the call returned an error from waiting.
C11_HandlesReleasedOnReturn ==
    \A i \in Instances :
        (Returned(i) /\ HasProc(i))
            => /\ ~proc[i].stdinOpen /\ ~proc[i].handle
               /\ proc[i].state = "reaped" \/ (ret[i] = "err" /\ waited[i])
               /\ ret[i] = "ok" => proc[i].state = "reaped"

\* C11 witness: write returned an error from waiting; its handles are
\* released and its subprocess is still running.
C11_Witness ==
    \E i \in Instances :
        /\ Returned(i) /\ lastOp[i] = "write" /\ ret[i] = "err" /\ waited[i]
        /\ proc[i].state = "running" /\ ~proc[i].stdinOpen /\ ~proc[i].handle

\* everything the model keeps for one instance besides its fields
LocalState(i) ==
    <<pc[i], proc[i], ret[i], lastOp[i], toolFound[i], spawns[i], data[i],
      written[i], stdinRes[i], waited[i], initOk[i], nWrites[i], prevWrite[i]>>

\* C12: no step of init or write changes a field of any connector, and a
\* step of one connector leaves everything of the other connectors as it
\* was, so the calls of one instance proceed as they do when it runs alone.
C12_FieldsReadOnly ==
    [][/\ cfg' = cfg
       /\ \E i \in Instances :
             \A j \in Instances \ {i} : LocalState(j)' = LocalState(j)]_vars

\* C12 witness: the two connectors of tests::connect are inside calls at the
\* same time, one having failed a write before and one succeeded an init.
C12_Witness ==
    /\ cfg["p"] = get_postgres /\ cfg["q"] = get_invalid_postgres
    /\ pc["p"] = "write_wait" /\ initOk["p"]
    /\ pc["q"] = "init_wait" /\ nWrites["q"] > 0

\* the statement a spawned reset command carries: the argument after -c of
\* the local command, the tail of the remote command line otherwise
StatementOf(cmd) ==
    LET last == cmd.args[Len(cmd.args)]
    IN  IF cmd.program = "ssh" THEN SubSeq(last, Len(last) - 5, Len(last)) ELSE last

\* C13: for every username, the statement init passes to the restore tool is:
\* one DROP of the public schema with CASCADE, one CREATE of it, GRANT ALL to
\* the username in double quotes, GRANT ALL to public, in this order, the
\* username being the only interpolated part.
C13_ResetStatementShape ==
    \A i \in Instances :
        (lastOp[i] = "init" /\ HasProc(i))
            => LET q == StatementOf(proc[i].cmd)
               IN  /\ Len(q) = 6
                   /\ q[1] = "DROP SCHEMA public CASCADE; "
                   /\ q[2] = "CREATE SCHEMA public; "
                   /\ q[3] = "GRANT ALL ON SCHEMA public TO \""
                   /\ q[4] = cfg[i].username
                   /\ q[5] = "\"; "
                   /\ q[6] = "GRANT ALL ON SCHEMA public TO public;"
                   /\ ~Tunnelled(i) => proc[i].cmd.args[Len(proc[i].cmd.args) - 1] = Lit("-c")

\* C13 witness: init has spawned the reset for the username alice.
C13_Witness ==
    \E i \in Instances :
        /\ lastOp[i] = "init" /\ HasProc(i) /\ cfg[i].username = "alice"
        /\ InArgs(proc[i].cmd, "alice")

\* C14: a spawned command is the remote wrapper's exactly when a tunnel is
\* configured.  Without a tunnel it is psql itself with PGPASSWORD set to the
\* password in its environment overrides; with a tunnel the password was
\* given to the wrapper as the secret PGPASSWORD and the local command has no
\* environment override.
C14_RoutedIffTunnel ==
    \A i \in Instances :
        HasProc(i) =>
            LET cmd == proc[i].cmd
            IN  /\ Tunnelled(i) <=> cmd.program = "ssh"
                /\ ~Tunnelled(i) =>
                      /\ cmd.program = "psql"
                      /\ cmd.envs = << <<"PGPASSWORD", cfg[i].password>> >>
                /\ Tunnelled(i) =>
                      /\ cmd.envs = <<>>
                      /\ cmd.args[1] = Lit(cfg[i].ssh_config.host)
                      /\ SubSeq(cmd.args[2], 1, 6) =
                            <<"export ", "PGPASSWORD", "=", cfg[i].password, "; ", "psql">>

\* C14 witness: a write spawned through the tunnel and carrying no local
\* environment override.
C14_Witness ==
    \E i \in Instances :
        /\ lastOp[i] = "write" /\ HasProc(i) /\ Tunnelled(i)
        /\ proc[i].cmd.program = "ssh" /\ proc[i].cmd.envs = <<>>

\* C15: a write whose spawn failed has returned an error at once: no byte
\* of the payload was written, no payload write was attempted and no wait
\* took place.
C15_SpawnFailureBeforeStream ==
    \A i \in Instances :
        (lastOp[i] = "write" /\ spawns[i] > 0 /\ ~HasProc(i))
            => /\ pc[i] = "idle" /\ ret[i] = "err"
               /\ written[i] = <<>> /\ stdinRes[i] = "none" /\ ~waited[i]

\* C15 witness: a tunnelled write with a valid password returned an error
\* from a failed spawn with nothing written and no wait.
C15_Witness ==
    \E i \in Instances :
        /\ lastOp[i] = "write" /\ spawns[i] = 1 /\ ~HasProc(i) /\ ret[i] = "err"
        /\ written[i] = <<>> /\ ~waited[i]
        /\ Tunnelled(i) /\ cfg[i].password = ValidPassword

\* C16: init keeps no record of having run: every init on a connector with
\* wipe_database set that finds the tool goes on to spawn the reset, also
\* after an earlier successful init and after writes, and the command it
\* spawns carries the reset statement.
C16_InitAlwaysResets ==
    \A i \in Instances :
        (lastOp[i] = "init" /\ toolFound[i] /\ cfg[i].wipe_database)
            => /\ pc[i] = "init_spawn" \/ spawns[i] = 1
               /\ HasProc(i) => CarriesReset(proc[i].cmd)

\* C16 witness: after a successful init and MaxWrites writes, the first of
\* them successful, another init has spawned the reset.
C16_Witness ==
    \E i \in Instances :
        /\ initOk[i] /\ nWrites[i] = MaxWrites /\ prevWrite[i] = "ok"
        /\ lastOp[i] = "init" /\ HasProc(i) /\ CarriesReset(proc[i].cmd)

====
